---- MODULE Spec2Model ----
(***************************************************************************)
(* Model of the search filter of wuffle:                                   *)
(*   packages/app/lib/apps/search/Search.js                                *)
(*                                                                         *)
(* JavaScript values are modelled as follows.                              *)
(*  - A string is a sequence of one-character strings, so that             *)
(*    toLowerCase, includes, startsWith and the relational operators on    *)
(*    strings are computed character by character.                         *)
(*  - An object is a TLA+ record; reading a property that is not in the    *)
(*    DOMAIN of the record yields undefined (null is not distinguished     *)
(*    from undefined: both are falsy and both throw when dereferenced).    *)
(*  - The outcome of calling a matcher is "true" (a truthy value),         *)
(*    "false" (a falsy value) or "throw" (a TypeError was raised).         *)
(*  - A closure is a record [fn |-> <name of the inner function>, ...]     *)
(*    holding the values the closure captured when it was created.         *)
(***************************************************************************)
EXTENDS Integers, Sequences, FiniteSets, TLC

\* ------------------------------------------------------------------ bounds
\* longest term list handed to getSearchFilter
MaxTerms == 2
\* most links the store's link index holds at a time
MaxLinks == 1
\* record timestamps and temporal values range over 2023-03-01 .. 2023-03-0<MaxDay>
MaxDay == 3

\* -------------------------------------------------------------------- state
VARIABLES
  issues,      \* store: keys of the records the store holds
  links,       \* store: link index, a set of [source, type, target] entries
  user,        \* acting user: <<>> when none is supplied, else <<[login |-> ..]>>
  terms,       \* term list (result of parseSearch) of the last getSearchFilter call
  compiled,    \* "none" before the first call, "ok" when the call returned a
               \* predicate, "threw" when it ended with an exception
  filterFns,   \* the closures the returned predicate holds
  issue,       \* <<r>>: the predicate was last applied to record r; <<>>: not yet
  result,      \* what that application returned
  warned,      \* what that application sent to log.warn
  changed      \* the store or the acting user changed after the last call

vars == <<issues, links, user, terms, compiled, filterFns, issue, result, warned, changed>>

\* --------------------------------------------------------- string literals
s_al == <<"a", "l">>
s_Al9 == <<"A", "l", "9">>
s_bal == <<"b", "a", "l">>
s_b == <<"b">>
s_x == <<"x">>
s_me == <<"@", "m", "e">>
s_assigned == <<"a", "s", "s", "i", "g", "n", "e", "d">>
s_unassigned == <<"u", "n">> \o s_assigned
s_closed == <<"c", "l", "o", "s", "e", "d">>
s_open == <<"o", "p", "e", "n">>
s_issue == <<"i", "s", "s", "u", "e">>
s_pull == <<"p", "u", "l", "l">>
s_milestoned == <<"m", "i", "l", "e", "s", "t", "o", "n", "e", "d">>
s_epic == <<"e", "p", "i", "c">>
s_undefined == <<"u", "n", "d", "e", "f", "i", "n", "e", "d">>
k1 == <<"o", "/", "r", "#", "1">>
k2 == <<"o", "/", "r", "#", "2">>
Keys == {k1, k2}

\* ------------------------------------------------------ JavaScript strings
\* String.prototype.toLowerCase on the letters the model uses
LowerChar(c) ==
  CASE c = "A" -> "a"
    [] c = "B" -> "b"
    [] c = "L" -> "l"
    [] c = "U" -> "u"
    [] c = "G" -> "g"
    [] OTHER -> c

toLowerCase(s) == [i \in 1..Len(s) |-> LowerChar(s[i])]

\* String.prototype.startsWith
startsWith(s, p) == Len(p) <= Len(s) /\ SubSeq(s, 1, Len(p)) = p

\* String.prototype.includes
strIncludes(s, p) == \E i \in 0..(Len(s) - Len(p)) : SubSeq(s, i + 1, i + Len(p)) = p

\* UTF-16 code unit of the characters that occur in timestamps
CharCode(c) ==
  CASE c = "-" -> 45
    [] c = "." -> 46
    [] c = "0" -> 48
    [] c = "1" -> 49
    [] c = "2" -> 50
    [] c = "3" -> 51
    [] c = "4" -> 52
    [] c = "5" -> 53
    [] c = "6" -> 54
    [] c = "7" -> 55
    [] c = "8" -> 56
    [] c = "9" -> 57
    [] c = ":" -> 58
    [] c = "T" -> 84
    [] c = "Z" -> 90
    [] OTHER -> 120

\* a < b on two strings: the first differing code unit decides, a proper
\* prefix is smaller
strLess(a, b) ==
  \E i \in 1..(Len(b)) :
     /\ \A j \in 1..(i - 1) : j <= Len(a) /\ a[j] = b[j]
     /\ \/ i = Len(a) + 1
        \/ i <= Len(a) /\ CharCode(a[i]) < CharCode(b[i])

\* ----------------------------------------------------- JavaScript outcomes
Has(o, f) == f \in DOMAIN o

Truthy(b) == IF b THEN "true" ELSE "false"

\* a || b, a evaluated first
jsOr(a, b) == IF a = "throw" THEN "throw" ELSE IF a = "true" THEN "true" ELSE b

\* !a
jsNot(a) == IF a = "throw" THEN "throw" ELSE IF a = "true" THEN "false" ELSE "true"

\* Array.prototype.some over the outcomes of the callback on the elements, in
\* the order of the array: the first truthy outcome or the first exception ends
\* the walk
some(outcomes) ==
  IF \E i \in 1..Len(outcomes) : outcomes[i] # "false"
  THEN outcomes[CHOOSE i \in 1..Len(outcomes) :
                  /\ outcomes[i] # "false"
                  /\ \A j \in 1..(i - 1) : outcomes[j] = "false"]
  ELSE "false"

\* Array.prototype.every over the outcomes of the callback on the elements: the
\* first falsy outcome or the first exception ends the walk
every(outcomes) ==
  IF \E i \in 1..Len(outcomes) : outcomes[i] # "true"
  THEN outcomes[CHOOSE i \in 1..Len(outcomes) :
                  /\ outcomes[i] # "true"
                  /\ \A j \in 1..(i - 1) : outcomes[j] = "true"]
  ELSE "true"

\* the property f of the object, or the empty array when it is undefined
orEmpty(obj, f) == IF Has(obj, f) THEN obj[f] ELSE <<>>

\* includes(actual, pattern); actual may be undefined (obj lacks field f)
includes(obj, f, pattern) ==
  IF pattern = <<>> THEN "false"
  ELSE IF ~Has(obj, f) THEN "throw"
  ELSE Truthy(strIncludes(toLowerCase(obj[f]), toLowerCase(pattern)))

\* fuzzyMatches(actual, pattern); actual may be undefined (obj lacks field f)
fuzzyMatches(obj, f, pattern) ==
  IF pattern = <<>> THEN "false"
  ELSE IF ~Has(obj, f) THEN "throw"
  ELSE Truthy(startsWith(toLowerCase(obj[f]), toLowerCase(pattern)))

\* --------------------------------------------------------------- timestamps
Digits == <<"0", "1", "2", "3", "4", "5", "6", "7", "8", "9">>

IsDigit(c) == \E n \in 1..10 : Digits[n] = c

DigitVal(c) == (CHOOSE n \in 1..10 : Digits[n] = c) - 1

\* decimal number written in s[from..to]
NumAt(s, from, to) ==
  LET RECURSIVE val(_)
      val(i) == IF i < from THEN 0 ELSE 10 * val(i - 1) + DigitVal(s[i])
  IN val(to)

\* n written with w digits, zero padded
Pad(n, w) ==
  LET RECURSIVE str(_, _)
      str(m, k) == IF k = 0 THEN <<>> ELSE str(m \div 10, k - 1) \o <<Digits[(m % 10) + 1]>>
  IN str(n, w)

\* an instant is <<year, month, day, hour, minute, second, millisecond>>
instantBefore(a, b) ==
  \E i \in 1..7 : a[i] < b[i] /\ \A j \in 1..(i - 1) : a[j] = b[j]

\* Date.prototype.toISOString: always YYYY-MM-DDTHH:mm:ss.sssZ
toISOString(t) ==
  Pad(t[1], 4) \o <<"-">> \o Pad(t[2], 2) \o <<"-">> \o Pad(t[3], 2) \o <<"T">>
    \o Pad(t[4], 2) \o <<":">> \o Pad(t[5], 2) \o <<":">> \o Pad(t[6], 2)
    \o <<".">> \o Pad(t[7], 3) \o <<"Z">>

\* the timestamp format of the records: the same instant written without the
\* milliseconds part, YYYY-MM-DDTHH:mm:ssZ
toSecondsString(t) ==
  Pad(t[1], 4) \o <<"-">> \o Pad(t[2], 2) \o <<"-">> \o Pad(t[3], 2) \o <<"T">>
    \o Pad(t[4], 2) \o <<":">> \o Pad(t[5], 2) \o <<":">> \o Pad(t[6], 2) \o <<"Z">>

\* the instant an ISO 8601 UTC timestamp denotes (with or without milliseconds)
instantOf(s) ==
  <<NumAt(s, 1, 4), NumAt(s, 6, 7), NumAt(s, 9, 10), NumAt(s, 12, 13),
    NumAt(s, 15, 16), NumAt(s, 18, 19),
    IF Len(s) = 24 THEN NumAt(s, 21, 23) ELSE 0>>

\* a value of the form YYYY-MM-DD
IsDateString(s) ==
  /\ Len(s) = 10
  /\ \A i \in {1, 2, 3, 4, 6, 7, 9, 10} : IsDigit(s[i])
  /\ s[5] = "-" /\ s[8] = "-"
  /\ NumAt(s, 6, 7) \in 1..12
  /\ NumAt(s, 9, 10) \in 1..31

\* comparator prefix of a temporal value (longest first)
temporalComparator(v) ==
  IF Len(v) >= 2 /\ SubSeq(v, 1, 2) \in {<<">", "=">>, <<"<", "=">>} THEN SubSeq(v, 1, 2)
  ELSE IF Len(v) >= 1 /\ SubSeq(v, 1, 1) \in {<<">">>, <<"<">>} THEN SubSeq(v, 1, 1)
  ELSE <<>>

\* parseTemporalFilter(value): <<>> stands for the "no filter" result
parseTemporalFilter(v) ==
  LET q == temporalComparator(v)
      d == SubSeq(v, Len(q) + 1, Len(v))
  IN IF IsDateString(d)
     THEN <<[qualifier |-> q,
             date |-> <<NumAt(d, 1, 4), NumAt(d, 6, 7), NumAt(d, 9, 10), 0, 0, 0, 0>>]>>
     ELSE <<>>

\* the date 2023-03-0<d> as a value string and as an instant
dayString(d) == <<"2", "0", "2", "3", "-", "0", "3", "-", "0">> \o <<Digits[d + 1]>>

dayInstant(d) == <<2023, 3, d, 0, 0, 0, 0>>

\* ----------------------------------------------------------------- matchers
\* `${x}` of a property: undefined is rendered as the word undefined
template(obj, f) == IF Has(obj, f) THEN obj[f] ELSE s_undefined

\* filterText; text was lower-cased by textFilter
filterText(text, rec) ==
  LET issueText == <<"#">> \o template(rec, "number") \o <<" ">> \o template(rec, "title")
                     \o <<"\n", "\n">> \o template(rec, "body")
  IN includes([t |-> issueText], "t", text)

\* filterReferenced, had it looked the links up in the store on every call
filterReferenced_live(text, byKey, rec) ==
  Truthy(Has(rec, "key")
         /\ (rec.key = text
             \/ (text \in issues
                 /\ \E l \in links : l.source = text /\ l.target = rec.key)))

\* filterReferenced; text and byKey were captured by referenceFilter
filterReferenced(text, byKey, rec) ==
  Truthy(Has(rec, "key") /\ (rec.key = text \/ rec.key \in byKey))

filterAssigned(rec) ==
  IF Has(rec, "assignees") THEN Truthy(Len(rec.assignees) > 0) ELSE "throw"

filterUnassigned(rec) ==
  IF Has(rec, "assignees") THEN Truthy(Len(rec.assignees) = 0) ELSE "throw"

filterClosed(rec) == Truthy(Has(rec, "state") /\ rec.state = s_closed)

filterOpen(rec) == Truthy(Has(rec, "state") /\ rec.state = s_open)

filterIssue(rec) == Truthy(~Has(rec, "pull_request"))

filterPull(rec) == Truthy(Has(rec, "pull_request"))

filterMilestoned(rec) == Truthy(Has(rec, "milestone"))

CHILD_LINK_TYPES == {"CHILD_OF", "CLOSES"}

filterEpic(rec) ==
  IF ~Has(rec, "links") THEN "true"
  ELSE jsNot(some([i \in 1..Len(rec.links) |->
                     Truthy(Has(rec.links[i], "type") /\ rec.links[i].type \in CHILD_LINK_TYPES)]))

filterLabel(name, rec) ==
  LET labels == orEmpty(rec, "labels")
  IN some([i \in 1..Len(labels) |-> includes(labels[i], "name", name)])

filterRepoAndOwner(name, rec) ==
  IF ~Has(rec, "repository") THEN "throw"
  ELSE IF ~Has(rec.repository, "owner") THEN "throw"
  ELSE includes([t |-> template(rec.repository.owner, "login") \o <<"/">>
                         \o template(rec.repository, "name")], "t", name)

filterMilestone(name, rec) ==
  IF ~Has(rec, "milestone") THEN "false"
  ELSE fuzzyMatches(rec.milestone, "title", name)

filterAuthor(name, rec) ==
  IF ~Has(rec, "user") THEN "false"
  ELSE fuzzyMatches(rec.user, "login", name)

filterAssignee(name, rec) ==
  LET assignees == orEmpty(rec, "assignees")
  IN some([i \in 1..Len(assignees) |-> fuzzyMatches(assignees[i], "login", name)])

filterReviewer(name, rec) ==
  IF ~Has(rec, "requested_reviewers") THEN "false"
  ELSE LET reviewers == rec.requested_reviewers
           reviews == orEmpty(rec, "reviews")
       IN jsOr(some([i \in 1..Len(reviewers) |-> fuzzyMatches(reviewers[i], "login", name)]),
               some([i \in 1..Len(reviews) |->
                       IF Has(reviews[i], "user")
                       THEN fuzzyMatches(reviews[i].user, "login", name)
                       ELSE "throw"]))

filterCommented(name, rec) ==
  IF ~Has(rec, "comments") THEN "false"
  ELSE some([i \in 1..Len(rec.comments) |->
               IF Has(rec.comments[i], "user")
               THEN fuzzyMatches(rec.comments[i].user, "login", name)
               ELSE "throw"])

filterInvolves(name, rec) ==
  jsOr(filterAssignee(name, rec),
       jsOr(filterAuthor(name, rec),
            jsOr(filterReviewer(name, rec), filterCommented(name, rec))))

\* matchTemporal(otherDateString); an undefined timestamp compares false
matchTemporal(qualifier, dateString, obj, f) ==
  IF qualifier \notin {<<">">>, <<">", "=">>, <<"<">>, <<"<", "=">>} THEN "true"
  ELSE IF ~Has(obj, f) THEN "false"
  ELSE LET other == obj[f] IN
       CASE qualifier = <<">">> -> Truthy(strLess(dateString, other))
         [] qualifier = <<">", "=">> -> Truthy(~strLess(other, dateString))
         [] qualifier = <<"<">> -> Truthy(strLess(other, dateString))
         [] qualifier = <<"<", "=">> -> Truthy(~strLess(dateString, other))

\* -------------------------------------------------------------------- store
\* store.getIssueByKey(key): <<>> when the store holds no such record
getIssueByKey(key) == IF key \in issues THEN <<[key |-> key]>> ELSE <<>>

\* store.getIssueLinks(issue): the links whose source is the record
getIssueLinks(rec) ==
  {[type |-> l.type, target |-> [key |-> l.target]] : l \in {m \in links : m.source = rec.key}}

\* issueIdent(issue), handed to the diagnostic sink
issueIdent(rec) == template(rec, "key")

\* ----------------------------------------------------------------- registry
filterNoop == [fn |-> "filterNoop"]

filterReject == [fn |-> "filterReject"]

noopFilter == filterNoop

\* noneFilter, had it been permissive
noneFilter_noop == [fn |-> "filterNoop"]


noneFilter == filterReject

textFilter(text) == [fn |-> "filterText", text |-> toLowerCase(text)]

\* referenceFilter, had it keyed the records that link to the given one
referenceFilter_bySource(text) ==
  [fn |-> "filterReferenced", text |-> text,
   byKey |-> {l.source : l \in {m \in links : m.target = text}}]


referenceFilter(text) ==
  LET found == getIssueByKey(text)
      lnks == IF found # <<>> THEN getIssueLinks(found[1]) ELSE {}
      byKey == {link.target.key : link \in lnks}
  IN [fn |-> "filterReferenced", text |-> text, byKey |-> byKey]

isFilter(value) ==
  CASE value = s_assigned -> [fn |-> "filterAssigned"]
    [] value = s_unassigned -> [fn |-> "filterUnassigned"]
    [] value = s_closed -> [fn |-> "filterClosed"]
    [] value = s_open -> [fn |-> "filterOpen"]
    [] value = s_issue -> [fn |-> "filterIssue"]
    [] value = s_pull -> [fn |-> "filterPull"]
    [] value = s_milestoned -> [fn |-> "filterMilestoned"]
    [] value = s_epic -> [fn |-> "filterEpic"]
    [] OTHER -> filterNoop

labelFilter(name) == [fn |-> "filterLabel", name |-> name]

repoFilter(name) == [fn |-> "filterRepoAndOwner", name |-> name]

milestoneFilter(name) == [fn |-> "filterMilestone", name |-> name]

authorFilter(name) == [fn |-> "filterAuthor", name |-> name]

assigneeFilter(name) == [fn |-> "filterAssignee", name |-> name]

reviewerFilter(name) == [fn |-> "filterReviewer", name |-> name]

commentedFilter(name) == [fn |-> "filterCommented", name |-> name]

involvesFilter(name) == [fn |-> "filterInvolves", name |-> name]

\* filterTemporal(value) for the timestamp property field of the record
temporalFilter(field, value) ==
  LET filter == parseTemporalFilter(value)
  IN IF filter = <<>> THEN filterNoop
     ELSE [fn |-> "filterCreated", field |-> field,
           qualifier |-> filter[1].qualifier,
           dateString |-> toISOString(filter[1].date)]

\* the own properties of the object literal filters
OwnQualifiers ==
  {"text", "ref", "is", "label", "repo", "milestone", "author", "assignee",
   "reviewer", "commented", "involves", "created", "updated"}

\* filters[qualifier]: filters is an object literal, so a name that is not an
\* own property is looked up on Object.prototype: constructor is the function
\* Object, valueOf is the function Object.prototype.valueOf, __proto__ is the
\* object Object.prototype; any other name the model uses is undefined
filtersLookup(qualifier) ==
  CASE qualifier \in OwnQualifiers -> "factory"
    [] qualifier = "constructor" -> "Object"
    [] qualifier = "valueOf" -> "Object.prototype.valueOf"
    [] qualifier = "__proto__" -> "Object.prototype"
    [] OTHER -> "undefined"

\* filters[qualifier](value) for an own property
factoryFn(qualifier, value) ==
  CASE qualifier = "text" -> textFilter(value)
    [] qualifier = "ref" -> referenceFilter(value)
    [] qualifier = "is" -> isFilter(value)
    [] qualifier = "label" -> labelFilter(value)
    [] qualifier = "repo" -> repoFilter(value)
    [] qualifier = "milestone" -> milestoneFilter(value)
    [] qualifier = "author" -> authorFilter(value)
    [] qualifier = "assignee" -> assigneeFilter(value)
    [] qualifier = "reviewer" -> reviewerFilter(value)
    [] qualifier = "commented" -> commentedFilter(value)
    [] qualifier = "involves" -> involvesFilter(value)
    [] qualifier = "created" -> temporalFilter("created_at", value)
    [] qualifier = "updated" -> temporalFilter("updated_at", value)

\* ----------------------------------------------------------- getSearchFilter
\* an exception that leaves getSearchFilter
Thrown == [threw |-> "TypeError"]

\* function(arg) { return !fn(arg); }
negation(fn) == [fn |-> "negated", of |-> fn]

\* the callback of terms.map, had it ignored the negation flag
termFilter_noNegation(term, usr) ==
  IF term.value = <<>> THEN noopFilter
  ELSE IF term.value = s_me /\ usr = <<>> THEN noneFilter
  ELSE LET value == IF term.value = s_me THEN usr[1].login ELSE term.value
           found == filtersLookup(term.qualifier)
       IN IF found = "undefined" THEN noopFilter
          ELSE IF found \in {"Object.prototype", "Object.prototype.valueOf"} THEN Thrown
          ELSE IF found = "Object" THEN [fn |-> "String"]
          ELSE factoryFn(term.qualifier, value)

\* the callback of terms.map: the closure of one term, or Thrown
termFilter(term, usr) ==
  IF term.value = <<>> THEN noopFilter
  ELSE IF term.value = s_me /\ usr = <<>> THEN noneFilter
  ELSE LET value == IF term.value = s_me THEN usr[1].login ELSE term.value
           found == filtersLookup(term.qualifier)
       IN IF found = "undefined" THEN noopFilter
          \* Object.prototype is truthy and not callable; valueOf, called without
          \* a receiver, raises a TypeError
          ELSE IF found \in {"Object.prototype", "Object.prototype.valueOf"} THEN Thrown
          ELSE LET fn == IF found = "Object"
                         \* Object(value) is a String object, not a function
                         THEN [fn |-> "String"]
                         ELSE factoryFn(term.qualifier, value)
               IN IF term.negated THEN negation(fn) ELSE fn

\* fn(issue) for a closure other than a negation wrapper
callPlain(fn, rec) ==
  CASE fn.fn = "filterNoop" -> "true"
    [] fn.fn = "filterReject" -> "false"
    [] fn.fn = "filterText" -> filterText(fn.text, rec)
    [] fn.fn = "filterReferenced" -> filterReferenced(fn.text, fn.byKey, rec)
    [] fn.fn = "filterAssigned" -> filterAssigned(rec)
    [] fn.fn = "filterUnassigned" -> filterUnassigned(rec)
    [] fn.fn = "filterClosed" -> filterClosed(rec)
    [] fn.fn = "filterOpen" -> filterOpen(rec)
    [] fn.fn = "filterIssue" -> filterIssue(rec)
    [] fn.fn = "filterPull" -> filterPull(rec)
    [] fn.fn = "filterMilestoned" -> filterMilestoned(rec)
    [] fn.fn = "filterEpic" -> filterEpic(rec)
    [] fn.fn = "filterLabel" -> filterLabel(fn.name, rec)
    [] fn.fn = "filterRepoAndOwner" -> filterRepoAndOwner(fn.name, rec)
    [] fn.fn = "filterMilestone" -> filterMilestone(fn.name, rec)
    [] fn.fn = "filterAuthor" -> filterAuthor(fn.name, rec)
    [] fn.fn = "filterAssignee" -> filterAssignee(fn.name, rec)
    [] fn.fn = "filterReviewer" -> filterReviewer(fn.name, rec)
    [] fn.fn = "filterCommented" -> filterCommented(fn.name, rec)
    [] fn.fn = "filterInvolves" -> filterInvolves(fn.name, rec)
    [] fn.fn = "filterCreated" -> matchTemporal(fn.qualifier, fn.dateString, rec, fn.field)
    \* calling a String object: TypeError, fn is not a function
    [] fn.fn = "String" -> "throw"

\* fn(issue)
callFn(fn, rec) ==
  IF fn.fn = "negated" THEN jsNot(callPlain(fn.of, rec)) ELSE callPlain(fn, rec)

\* getSearchFilter(search, user) up to the creation of the predicate:
\* [status |-> "ok", fns |-> filterFns] or [status |-> "threw"]
getSearchFilter(ts, usr) ==
  LET fns == [i \in 1..Len(ts) |-> termFilter(ts[i], usr)]
  IN IF \E i \in 1..Len(ts) : fns[i] = Thrown
     THEN [status |-> "threw", fns |-> <<>>]
     ELSE [status |-> "ok", fns |-> fns]

\* the predicate, had it asked for some term to match instead of every term
predicate_some(fns, rec) ==
  LET outcome == some([i \in 1..Len(fns) |-> callFn(fns[i], rec)])
  IN IF outcome = "throw"
     THEN [value |-> FALSE, warned |-> <<[issue |-> issueIdent(rec), err |-> "TypeError"]>>]
     ELSE [value |-> (outcome = "true"), warned |-> <<>>]

\* the predicate, had its catch block let the record through
predicate_catchTrue(fns, rec) ==
  LET outcome == every([i \in 1..Len(fns) |-> callFn(fns[i], rec)])
  IN IF outcome = "throw"
     THEN [value |-> TRUE, warned |-> <<[issue |-> issueIdent(rec), err |-> "TypeError"]>>]
     ELSE [value |-> (outcome = "true"), warned |-> <<>>]

\* the predicate getSearchFilter returns, applied to a record
predicate(fns, rec) ==
  LET outcome == every([i \in 1..Len(fns) |-> callFn(fns[i], rec)])
  IN IF outcome = "throw"
     THEN [value |-> FALSE, warned |-> <<[issue |-> issueIdent(rec), err |-> "TypeError"]>>]
     ELSE [value |-> (outcome = "true"), warned |-> <<>>]

\* ------------------------------------------------------------------- inputs
s_ug == <<"u", "g">>
s_Bug == <<"B", "u", "g">>

\* the record without property f
Drop(rec, f) == [x \in DOMAIN rec \ {f} |-> rec[x]]

\* the record with the list property f present and empty
Empty(rec, f) == [x \in DOMAIN rec \cup {f} |-> IF x = f THEN <<>> ELSE rec[x]]

\* a pull request with every property populated
pull ==
  [key |-> k1, number |-> <<"1">>, title |-> <<"a", "b">>, body |-> s_x,
   state |-> s_open, pull_request |-> [url |-> s_x],
   user |-> [login |-> s_Al9],
   assignees |-> <<[login |-> s_bal]>>,
   labels |-> <<[name |-> s_Bug]>>,
   milestone |-> [title |-> s_Al9],
   repository |-> [owner |-> [login |-> s_al], name |-> s_b],
   requested_reviewers |-> <<[login |-> s_bal]>>,
   reviews |-> <<[user |-> [login |-> s_al]]>>,
   comments |-> <<[user |-> [login |-> s_bal]]>>,
   links |-> <<[type |-> "CHILD_OF", target |-> [key |-> k2]]>>,
   created_at |-> toSecondsString(dayInstant(2)),
   updated_at |-> toSecondsString(dayInstant(2))]

\* a closed issue with no optional property populated
bare ==
  [key |-> k2, number |-> <<"2">>, title |-> s_b, body |-> s_x, state |-> s_closed,
   repository |-> [owner |-> [login |-> s_bal], name |-> s_b],
   created_at |-> toSecondsString(dayInstant(1)),
   updated_at |-> toSecondsString(dayInstant(1))]

\* the properties the data model calls optional
OptionalLists == {"assignees", "labels", "requested_reviewers", "reviews", "comments", "links"}

OptionalFields == OptionalLists \cup {"milestone"}

\* records that miss a property a matcher dereferences without a guard
Malformed ==
  {Drop(pull, "repository"), Drop(bare, "repository"),
   [pull EXCEPT !.comments = <<[body |-> s_x]>>],
   [pull EXCEPT !.assignees = <<[id |-> s_x]>>]}

Timestamps ==
  {toSecondsString(dayInstant(d)) : d \in 1..MaxDay} \cup {toISOString(dayInstant(d)) : d \in 1..MaxDay}

Records ==
  {pull, bare, [pull EXCEPT !.key = k2], [bare EXCEPT !.key = k1]}
    \cup {Drop(pull, f) : f \in OptionalFields \cup {"user", "body", "pull_request"}}
    \cup {Empty(pull, f) : f \in OptionalLists}
    \cup {Empty(bare, f) : f \in OptionalLists}
    \cup {[pull EXCEPT !.user = [login |-> l]] : l \in {s_al, s_bal}}
    \cup {[pull EXCEPT !.created_at = t] : t \in Timestamps}
    \cup {[pull EXCEPT !.updated_at = toISOString(dayInstant(1))]}
    \cup Malformed

Comparators == {<<">">>, <<">", "=">>, <<"<">>, <<"<", "=">>}

\* the values the model tries for a qualifier
ValuesOf(q) ==
  CASE q = "text" -> {s_b}
    [] q = "ref" -> Keys
    [] q = "is" -> {s_assigned, s_unassigned, s_closed, s_open, s_issue, s_pull,
                    s_milestoned, s_epic, s_x}
    [] q = "label" -> {s_ug, <<>>}
    [] q \in {"repo", "milestone", "reviewer", "commented"} -> {s_al}
    [] q \in {"author", "assignee", "involves"} -> {s_al, s_me}
    [] q = "created" -> {c \o dayString(2) : c \in Comparators} \cup {dayString(2), s_x}
    [] q = "updated" -> {<<"<", "=">> \o dayString(2), <<">">> \o dayString(2)}
    [] q = "foo" -> {s_x, s_me}
    [] OTHER -> {s_x}

Qualifiers == OwnQualifiers \cup {"foo", "constructor", "valueOf", "__proto__"}

Term(q, v, n) == [qualifier |-> q, value |-> v, negated |-> n]

SingleTerms == UNION {{Term(q, v, n) : v \in ValuesOf(q), n \in BOOLEAN} : q \in Qualifiers}

\* the terms the longer term lists are made of
ConjTerms ==
  {Term("is", s_open, FALSE), Term("repo", s_al, FALSE),
   Term("foo", s_x, TRUE), Term("author", s_me, FALSE)}

Searches ==
  {<<>>} \cup {<<t>> : t \in SingleTerms}
         \cup UNION {[1..n -> ConjTerms] : n \in 2..MaxTerms}

Users == {<<>>, <<[login |-> s_al]>>}

StoreLinks == {[source |-> s, type |-> "LINKED_TO", target |-> t] : s \in Keys, t \in Keys}

\* ------------------------------------------------------------------ actions
Init ==
  /\ issues = {}
  /\ links = {}
  /\ user = <<>>
  /\ terms = <<>>
  /\ compiled = "none"
  /\ filterFns = <<>>
  /\ issue = <<>>
  /\ result = FALSE
  /\ warned = <<>>
  /\ changed = FALSE

\* getSearchFilter(search, user), parseSearch(search) being ts
GetSearchFilter(ts) ==
  LET r == getSearchFilter(ts, user) IN
  /\ terms' = ts
  /\ compiled' = r.status
  /\ filterFns' = r.fns
  /\ issue' = <<>>
  /\ result' = FALSE
  /\ warned' = <<>>
  /\ changed' = FALSE
  /\ UNCHANGED <<issues, links, user>>

\* the returned predicate is applied to a record
ApplyFilter(rec) ==
  LET r == predicate(filterFns, rec) IN
  /\ compiled = "ok"
  /\ issue' = <<rec>>
  /\ result' = r.value
  /\ warned' = r.warned
  /\ UNCHANGED <<issues, links, user, terms, compiled, filterFns, changed>>

\* the store receives or drops a record
StoreUpdateIssue(key) ==
  /\ key \notin issues
  /\ issues' = issues \cup {key}
  /\ changed' = TRUE
  /\ UNCHANGED <<links, user, terms, compiled, filterFns, issue, result, warned>>

StoreRemoveIssue(key) ==
  /\ key \in issues
  /\ issues' = issues \ {key}
  /\ changed' = TRUE
  /\ UNCHANGED <<links, user, terms, compiled, filterFns, issue, result, warned>>

\* the store's link index receives or drops a link
StoreAddLink(link) ==
  /\ link \notin links
  /\ link.source # link.target
  /\ Cardinality(links) < MaxLinks
  /\ links' = links \cup {link}
  /\ changed' = TRUE
  /\ UNCHANGED <<issues, user, terms, compiled, filterFns, issue, result, warned>>

StoreRemoveLink(link) ==
  /\ link \in links
  /\ links' = links \ {link}
  /\ changed' = TRUE
  /\ UNCHANGED <<issues, user, terms, compiled, filterFns, issue, result, warned>>

\* another acting user (or none) from now on
SetUser(u) ==
  /\ u # user
  /\ user' = u
  /\ changed' = TRUE
  /\ UNCHANGED <<issues, links, terms, compiled, filterFns, issue, result, warned>>

\* the searches and records of the specification in which the store and the
\* acting user change between calls
StoreSearches ==
  {<<Term("ref", k, n)>> : k \in Keys, n \in BOOLEAN}
    \cup {<<Term("author", s_me, FALSE)>>, <<Term("foo", s_me, TRUE)>>,
          <<Term("is", s_epic, FALSE)>>,
          <<Term("ref", k1, FALSE), Term("involves", s_me, FALSE)>>}

StoreRecords == {pull, bare, [pull EXCEPT !.key = k2], [bare EXCEPT !.key = k1]}

\* Any number of calls and applications, interleaved with changes of the store
\* and of the acting user.
Next ==
  \/ \E ts \in StoreSearches : GetSearchFilter(ts)
  \/ \E rec \in StoreRecords : ApplyFilter(rec)
  \/ \E key \in Keys : StoreUpdateIssue(key)
  \/ \E key \in Keys : StoreRemoveIssue(key)
  \/ \E link \in StoreLinks : StoreAddLink(link)
  \/ \E link \in StoreLinks : StoreRemoveLink(link)
  \/ \E u \in Users : SetUser(u)

Spec == Init /\ [][Next]_vars

\* One call of getSearchFilter and one application of its predicate, for every
\* search, record, acting user and store content within the bounds.
InitEval ==
  /\ issues \in SUBSET Keys
  /\ links \in {ls \in SUBSET StoreLinks :
                  Cardinality(ls) <= MaxLinks /\ \A l \in ls : l.source # l.target}
  /\ user \in Users
  /\ terms = <<>>
  /\ compiled = "none"
  /\ filterFns = <<>>
  /\ issue = <<>>
  /\ result = FALSE
  /\ warned = <<>>
  /\ changed = FALSE

NextEval ==
  \/ compiled = "none" /\ \E ts \in Searches : GetSearchFilter(ts)
  \/ issue = <<>> /\ \E rec \in Records : ApplyFilter(rec)

SpecEval == InitEval /\ [][NextEval]_vars

\* ------------------------------------------------------------------- claims
Applied == compiled = "ok" /\ issue # <<>>

\* the term with the opposite negation flag
Flip(t) == [t EXCEPT !.negated = ~@]

\* the list without its i-th element
RemoveAt(seq, i) == SubSeq(seq, 1, i - 1) \o SubSeq(seq, i + 1, Len(seq))

\* what the predicate of the term list ts, compiled for the current acting user
\* and store, returns on rec; ok is FALSE when getSearchFilter ends with an
\* exception and there is no predicate
Run(ts, rec) ==
  LET f == getSearchFilter(ts, user)
      r == predicate(f.fns, rec)
  IN IF f.status = "ok"
     THEN [ok |-> TRUE, value |-> r.value, warned |-> r.warned]
     ELSE [ok |-> FALSE, value |-> FALSE, warned |-> <<>>]

\* C1: getSearchFilter never ends with an exception, and an application in
\* which a matcher raises returns false and sends exactly one report.
C1_NoExceptionReachesCaller ==
  /\ compiled # "threw"
  /\ (Applied /\ every([i \in 1..Len(filterFns) |-> callFn(filterFns[i], issue[1])]) = "throw")
       => (result = FALSE /\ Len(warned) = 1)

Recognized(t) ==
  /\ t.qualifier \in OwnQualifiers
  /\ t.value # <<>>
  /\ ~(t.value = s_me /\ user = <<>>)

C3_UnknownQualifierIgnored ==
  \A i \in 1..Len(terms) :
     (compiled # "none" /\ ~changed /\ terms[i].qualifier \notin OwnQualifiers) =>
        /\ compiled = "ok"
        /\ issue # <<>> => /\ Run(RemoveAt(terms, i), issue[1]).ok
                           /\ Run(RemoveAt(terms, i), issue[1]).value = result

\* the term list with every @me replaced by the login of the acting user
Substituted(ts) ==
  [i \in 1..Len(ts) |->
     IF ts[i].value = s_me THEN [ts[i] EXCEPT !.value = user[1].login] ELSE ts[i]]

\* C4: without an acting user a term with the value @me lets no record match;
\* with an acting user it behaves as the term with the user's login in place
\* of @me, so author:@me for the user al matches exactly the records whose
\* user login starts with al, whatever the case.
C4_MeSentinel ==
  (Applied /\ ~changed /\ \E i \in 1..Len(terms) : terms[i].value = s_me) =>
     IF user = <<>>
     THEN result = FALSE
     ELSE /\ Run(Substituted(terms), issue[1]) = [ok |-> TRUE, value |-> result, warned |-> warned]
          /\ (terms = <<Term("author", s_me, FALSE)>> /\ user[1].login = s_al) =>
                (result <=> /\ Has(issue[1], "user")
                            /\ Has(issue[1].user, "login")
                            /\ Len(issue[1].user.login) >= 2
                            /\ toLowerCase(SubSeq(issue[1].user.login, 1, 2)) = s_al)

\* author:@me without an acting user was applied to a record with an author
C4_Witness ==
  /\ Applied /\ ~changed /\ user = <<>>
  /\ terms = <<Term("author", s_me, FALSE)>>
  /\ Has(issue[1], "user")
  /\ result = FALSE

\* C5: on a record where no matcher raises the predicate of a term list matches
\* exactly when the predicate of each single term matches; the empty list
\* matches every record.
C5_Conjunction ==
  (Applied /\ ~changed /\ \A i \in 1..Len(terms) : callFn(filterFns[i], issue[1]) # "throw") =>
     /\ result <=> \A i \in 1..Len(terms) : Run(<<terms[i]>>, issue[1]).value
     /\ terms = <<>> => result = TRUE

\* two terms, no matcher raises, the first matches alone and the second does not
C5_Witness ==
  /\ Applied /\ ~changed /\ Len(terms) = 2 /\ warned = <<>>
  /\ Run(<<terms[1]>>, issue[1]).value
  /\ ~Run(<<terms[2]>>, issue[1]).value
  /\ result = FALSE

\* c applied to two instants
Chronological(c, a, b) ==
  CASE c = <<">">> -> instantBefore(b, a)
    [] c = <<">", "=">> -> ~instantBefore(a, b)
    [] c = <<"<">> -> instantBefore(a, b)
    [] c = <<"<", "=">> -> ~instantBefore(b, a)

\* C6: created:cD and updated:cD match a record exactly when the instant of
\* its timestamp stands in relation c to the instant D.
C6_LexicographicIsChronological ==
  (Applied /\ Len(terms) = 1 /\ ~terms[1].negated
     /\ terms[1].qualifier \in {"created", "updated"}
     /\ parseTemporalFilter(terms[1].value) # <<>>
     /\ parseTemporalFilter(terms[1].value)[1].qualifier \in Comparators) =>
     LET filter == parseTemporalFilter(terms[1].value)[1]
         field == IF terms[1].qualifier = "created" THEN "created_at" ELSE "updated_at"
     IN Has(issue[1], field) =>
          (result <=> Chronological(filter.qualifier, instantOf(issue[1][field]), filter.date))

C8_AbsentFieldAsEmpty ==
  (Applied /\ Len(terms) = 1 /\ terms[1].qualifier \in OwnQualifiers) =>
     /\ \A f \in OptionalLists \ DOMAIN issue[1] :
           LET twin == predicate(filterFns, Empty(issue[1], f))
           IN twin.warned = <<>> =>
                /\ warned = <<>>
                /\ f # "requested_reviewers" => result = twin.value
     /\ issue[1] = Drop(pull, "milestone") => warned = <<>>
     /\ (terms[1] = Term("commented", s_al, FALSE) /\ ~Has(issue[1], "comments")) => result = FALSE
     /\ (terms[1] = Term("reviewer", s_al, FALSE) /\ ~Has(issue[1], "requested_reviewers"))
           => result = FALSE

\* C9: as long as no other predicate is compiled, a predicate that answered on
\* a record gives the same answer and the same report on that record again,
\* whatever happened to the store and to the acting user in between.
C9_PredicateKeepsItsAnswer ==
  [][(compiled = "ok" /\ compiled' = "ok" /\ filterFns' = filterFns
        /\ issue # <<>> /\ issue' = issue)
       => (result' = result /\ warned' = warned)]_vars

\* the store or the acting user changed so that a predicate compiled now would
\* answer differently from the one that is held
C9_Witness ==
  /\ Applied /\ changed
  /\ Run(terms, issue[1]).ok
  /\ Run(terms, issue[1]).value # result

\* C10: the value the predicate returns does not depend on the order of the
\* terms.
C10_OrderIndependent ==
  (Applied /\ ~changed) =>
     \A p \in Permutations(1..Len(terms)) :
        /\ Run([i \in 1..Len(terms) |-> terms[p[i]]], issue[1]).ok
        /\ Run([i \in 1..Len(terms) |-> terms[p[i]]], issue[1]).value = result

\* the same terms in another order report a failure this order did not report,
\* or the other way round
C10_Witness ==
  /\ Applied /\ ~changed
  /\ \E p \in Permutations(1..Len(terms)) :
        Run([i \in 1..Len(terms) |-> terms[p[i]]], issue[1]).warned # warned

====
